---- MODULE Spec2Model ----
(***************************************************************************)
(* A model of doc.js: thin wrappers around the browser's document tree.    *)
(* The document tree, the attribute lists and the presentation state of an *)
(* element are the state; every library function is an action that applies *)
(* the function to the current state and records what it returned.         *)
(*                                                                         *)
(* The repository holds several revisions of the same functions; a         *)
(* revision is named by the `variant' field of a call.                     *)
(***************************************************************************)
EXTENDS Integers, Sequences, FiniteSets, TLC

(***************************************************************************)
(* Bounds of the model.                                                    *)
(***************************************************************************)
\* number of elements of the document tree
NumNodes == 3
\* longest list of selectors handed to exists
MaxSelectors == 2

\* most attributes an element carries
MaxAttributes == 2

\* most calls of hide and show made on the element shown and hidden, and
\* most calls and most timers a page's script makes on the window
MaxCalls == 2

\* the lowest position the window scrolls to, in scroll units
MaxScroll == 2
\* the listeners a page adds to the document
MaxListeners == 2

VARIABLES
  children,   \* node -> sequence of its child elements, in document order
  cls,        \* element -> the one simple selector it matches
  attributes, \* the attribute list (element.attributes) of the element read
  call,       \* the last library call and its outcome
  el,         \* the presentation state of the element shown and hidden
  intervals,  \* the number of running setInterval timers started by hide
  frames,     \* the queue of requestAnimationFrame callbacks
  impl,       \* the revision of hide and show the page has loaded
  start,      \* el as it was before the first call of hide or show
  hist,       \* the calls of hide and show made so far
  win,        \* the window: scroll offsets, the element's rectangle, scroll requests
  loop,       \* the event loop: the running script, microtasks and tasks
  handle,     \* the re-resolving handle the page holds
  storage,    \* the host's persistent string store: key -> string
  record,     \* the in-memory record of the store object the page holds
  style,      \* the inline style of the element styled: property -> value
  bus         \* the document's event listeners, in the order they were added

domVars == <<children, cls>>
attrVars == <<attributes>>
visVars == <<el, intervals, frames, impl, start, hist>>
scrollVars == <<win, loop>>
handleVars == <<handle>>
storeVars == <<storage, record>>
pageVars == <<style, bus>>
hostVars == <<scrollVars, handleVars, storeVars, pageVars>>
vars == <<children, cls, attributes, call, el, intervals, frames, impl, start, hist,
          win, loop, handle, storage, record, style, bus>>

(***************************************************************************)
(* The host's document tree.                                               *)
(***************************************************************************)
\* the `document' object, the default target of every query
Document == 0
\* JavaScript's null: what querySelector answers when nothing matches
Null == -1

Nodes == 1..NumNodes
Targets == {Document} \cup Nodes
\* the simple selectors of the model; an element matches exactly one
Selectors == {"a", "b"}

\* whether element n matches selector s (Element.matches)
Matches(n, s) == cls[n] = s

RECURSIVE SortedSeq(_, _)
\* the members of S as a sequence, ascending, or descending when rev
SortedSeq(S, rev) ==
  IF S = {} THEN <<>>
  ELSE LET m == IF rev THEN CHOOSE x \in S : \A y \in S : y <= x
                       ELSE CHOOSE x \in S : \A y \in S : x <= y
       IN <<m>> \o SortedSeq(S \ {m}, rev)

\* the parent node of n (Node.parentNode), Null for a detached node
parentNode(n) ==
  IF \E p \in Targets : \E i \in 1..Len(children[p]) : children[p][i] = n
  THEN CHOOSE p \in Targets : \E i \in 1..Len(children[p]) : children[p][i] = n
  ELSE Null

RECURSIVE Descendants(_)
\* the descendants of node t in document (pre-)order, t itself excluded
Descendants(t) ==
  LET RECURSIVE Walk(_)
      Walk(kids) ==
        IF kids = <<>> THEN <<>>
        ELSE <<Head(kids)>> \o Descendants(Head(kids)) \o Walk(Tail(kids))
  IN Walk(children[t])

RECURSIVE querySelector(_, _)
\* ParentNode.querySelector: a depth-first search below target that stops
\* at the first element matching the selector; Null when there is none
querySelector(target, selector) ==
  LET RECURSIVE Search(_)
      Search(kids) ==
        IF kids = <<>> THEN Null
        ELSE IF Matches(Head(kids), selector) THEN Head(kids)
        ELSE LET below == querySelector(Head(kids), selector)
             IN IF below # Null THEN below ELSE Search(Tail(kids))
  IN Search(children[target])

\* ParentNode.querySelectorAll: every match below target, as a static list
querySelectorAll(target, selector) ==
  SelectSeq(Descendants(target), LAMBDA n : Matches(n, selector))

(***************************************************************************)
(* The presentation state of an element: its hidden flag and the display   *)
(* and opacity of its inline style.  Opacity is counted in twentieths, the *)
(* smaller of the two fade steps (0.05 and 0.1).                           *)
(***************************************************************************)
\* an element as the parser leaves it: shown, with an empty inline style
Plain == [hidden |-> FALSE, display |-> "", opacitySet |-> FALSE, opacity |-> 0]

\* the element shown and hidden takes no part: nothing is called on it
NoPresentation ==
  /\ el = Plain
  /\ intervals = 0
  /\ frames = <<>>
  /\ impl = "flag"
  /\ start = Plain
  /\ hist = <<>>

(***************************************************************************)
(* The window, the event loop, the handle and the store at rest.           *)
(***************************************************************************)
\* a window scrolled to the top that has received no scroll request; merged
\* is the object the last call of a scroll helper made of its defaults and
\* its options
NoScroll == [scrollY |-> 0, host |-> "standard", docTop |-> 0, target |-> -1,
             merged |-> [smooth |-> TRUE, topOffset |-> 0]]
\* an event loop with nothing queued and no script running
NoLoop == [running |-> "none", micro |-> <<>>, tasks |-> <<>>, calls |-> 0,
           timers |-> 0, done |-> {}, awaited |-> {},
           ran |-> [id |-> 0, after |-> {}]]
\* no handle has been created
NoHandle == [kind |-> "none", selector |-> "", element |-> -1, changes |-> 0]
\* no store object has been constructed
NoRecord == [name |-> "", data |-> <<>>]
\* a persistent string store that holds nothing
NoStorage == [text |-> <<>>, last |-> <<>>, writes |-> 0]
\* an inline style with no property set
NoStyle == [p \in {"color", "width"} |-> ""]
\* a document nobody listens on
NoBus == <<>>

\* the element styled and the document's listeners take no part
NoPage ==
  /\ style = NoStyle
  /\ bus = NoBus

\* the window, the handle, the store and the page take no part
NoHost ==
  /\ win = NoScroll
  /\ loop = NoLoop
  /\ handle = NoHandle
  /\ storage = NoStorage
  /\ record = NoRecord
  /\ NoPage

(***************************************************************************)
(* What a call leaves behind.                                              *)
(***************************************************************************)
\* JavaScript values: undefined, a string, the boolean true, an object
\* literal (a mapping from property names to values)
Undefined == [type |-> "undefined"]
Num(n) == [type |-> "number", value |-> n]
Str(text) == [type |-> "string", text |-> text]
True == [type |-> "boolean", value |-> TRUE]
JsNull == [type |-> "null"]
Obj(entries) == [type |-> "object", entries |-> entries]

NoCall ==
  [op |-> "none", variant |-> "none", selectors |-> <<>>, target |-> Document,
   status |-> "none", element |-> Null, elements |-> <<>>, result |-> FALSE,
   queried |-> <<>>, wasDetached |-> FALSE, name |-> <<>>, value |-> Undefined,
   options |-> <<>>, requests |-> <<>>, id |-> 0, new |-> Null, after |-> FALSE,
   changed |-> FALSE, sub |-> "", held |-> Null, adopt |-> FALSE,
   styles |-> <<>>, before |-> <<>>, delivered |-> <<>>, passed |-> <<>>,
   called |-> <<>>]

\* the page's script is between two library calls: JavaScript runs one call
\* at a time, and the caller has taken the result of the last one
Idle == call.op = "none"

\* the caller takes the result of the call that has just returned
Consume ==
  /\ ~Idle
  /\ call' = NoCall
  /\ UNCHANGED <<domVars, attrVars, visVars, hostVars>>

\* a returned (or resolved) value
Return(r) == [r EXCEPT !.status = "ok"]
\* a thrown Error (or a rejected promise) that reports a missing element
NotFound(r) == [r EXCEPT !.status = "NotFound"]

(***************************************************************************)
(* Selector accessors.                                                     *)
(***************************************************************************)
\* select without its presence check: a null result is handed to the caller
select_unchecked(selector, target) ==
  Return([NoCall EXCEPT !.element = querySelector(target, selector)])

\* select(selector, target = document)
select(selector, target) ==
  LET element == querySelector(target, selector)
  IN IF element = Null
     THEN NotFound(NoCall)
     ELSE Return([NoCall EXCEPT !.element = element])

Select(selector, target) ==
  /\ Idle
  /\ call' = [select(selector, target) EXCEPT
                !.op = "select", !.variant = "sync",
                !.selectors = <<selector>>, !.target = target]
  /\ UNCHANGED <<domVars, attrVars, visVars, hostVars>>

\* a promise settled by the last call of resolve or reject
Settle_last(calls) == IF calls = <<>> THEN NoCall ELSE calls[Len(calls)]

\* what a promise is settled with: its executor's first call of resolve or
\* reject decides, every later call is ignored
Settle(calls) == IF calls = <<>> THEN NoCall ELSE Head(calls)

\* window.selectAll of helpers.js: `if (!elems) throw', and a NodeList is
\* never falsy, so the list is returned whatever its length
selectAll_helpers(selector, target) ==
  Return([NoCall EXCEPT !.elements = querySelectorAll(target, selector)])

\* selectAll(selector, target = document)
selectAll(selector, target) ==
  LET elements == querySelectorAll(target, selector)
  IN IF Len(elements) = 0
     THEN NotFound(NoCall)
     ELSE Return([NoCall EXCEPT !.elements = elements])

\* selectAll of the promise-returning revision: reject, then resolve
selectAll_promise(selector, target) ==
  LET elements == querySelectorAll(target, selector)
  IN Settle((IF Len(elements) = 0 THEN <<NotFound(NoCall)>> ELSE <<>>)
            \o <<Return([NoCall EXCEPT !.elements = elements])>>)

SelectAllVariants == {"helpers", "sync", "promise"}

SelectAll(variant, selector, target) ==
  /\ variant \in SelectAllVariants
  /\ variant \in {"helpers", "promise"} => target = Document
  /\ Idle
  /\ call' = [(CASE variant = "helpers" -> selectAll_helpers(selector, target)
                 [] variant = "sync"    -> selectAll(selector, target)
                 [] variant = "promise" -> selectAll_promise(selector, target))
              EXCEPT !.op = "selectAll", !.variant = variant,
                     !.selectors = <<selector>>, !.target = target]
  /\ UNCHANGED <<domVars, attrVars, visVars, hostVars>>

RECURSIVE some(_, _, _)
\* Array.prototype.some with the callback of exists
some(selectors, target, queried) ==
  IF selectors = <<>> THEN [result |-> FALSE, queried |-> queried]
  ELSE LET q == Append(queried, Head(selectors))
       IN IF querySelector(target, Head(selectors)) # Null
          THEN [result |-> TRUE, queried |-> q]
          ELSE some(Tail(selectors), target, q)

RECURSIVE forEach_lastOnly(_, _, _, _)
\* a forEach whose callback sets the result flag at every selector
forEach_lastOnly(selectors, target, result, queried) ==
  IF selectors = <<>> THEN [result |-> result, queried |-> queried]
  ELSE forEach_lastOnly(Tail(selectors), target,
                        querySelector(target, Head(selectors)) # Null,
                        Append(queried, Head(selectors)))

RECURSIVE forEach(_, _, _, _)
\* Array.prototype.forEach with the callback of the older exists: every
\* selector is queried, a missing element lowers the result flag
forEach(selectors, target, result, queried) ==
  IF selectors = <<>> THEN [result |-> result, queried |-> queried]
  ELSE forEach(Tail(selectors), target,
               IF querySelector(target, Head(selectors)) = Null THEN FALSE ELSE result,
               Append(queried, Head(selectors)))

\* an every that goes on after a false answer, as forEach does
every_visitsAll(selectors, target, queried) ==
  forEach(selectors, target, TRUE, queried)

RECURSIVE every(_, _, _)
\* Array.prototype.every with the callback of exists: the callback queries
\* the document for one selector; the first false answer ends the loop
every(selectors, target, queried) ==
  IF selectors = <<>> THEN [result |-> TRUE, queried |-> queried]
  ELSE LET q == Append(queried, Head(selectors))
       IN IF querySelector(target, Head(selectors)) # Null
          THEN every(Tail(selectors), target, q)
          ELSE [result |-> FALSE, queried |-> q]

\* exists(selectors, target = document), the revision built on every
exists(selectors, target) ==
  LET r == every(selectors, target, <<>>)
  IN Return([NoCall EXCEPT !.result = r.result, !.queried = r.queried])

\* exists(selectors, target = document), the revisions built on forEach
exists_forEach(selectors, target) ==
  LET r == forEach(selectors, target, TRUE, <<>>)
  IN Return([NoCall EXCEPT !.result = r.result, !.queried = r.queried])

ExistsVariants == {"every", "forEach"}

RECURSIVE SeqsUpTo(_, _)
\* the sequences over S of length at most n
SeqsUpTo(S, n) ==
  IF n = 0 THEN {<<>>}
  ELSE LET shorter == SeqsUpTo(S, n - 1)
       IN shorter \cup {Append(q, x) : q \in shorter, x \in S}

SelectorLists == SeqsUpTo(Selectors, MaxSelectors)

Exists(variant, selectors, target) ==
  /\ variant \in ExistsVariants
  /\ Idle
  /\ call' = [(CASE variant = "every"   -> exists(selectors, target)
                 [] variant = "forEach" -> exists_forEach(selectors, target))
              EXCEPT !.op = "exists", !.variant = variant,
                     !.selectors = selectors, !.target = target]
  /\ UNCHANGED <<domVars, attrVars, visVars, hostVars>>

\* window.exists(selector) of helpers.js: the comparison is `=== null'
window_exists(selector) ==
  Return([NoCall EXCEPT !.result = (querySelector(Document, selector) = Null)])

\* Doc.exists(selector) of the class revision: the comparison is `!== null'
Doc_exists(selector) ==
  Return([NoCall EXCEPT !.result = (querySelector(Document, selector) # Null)])

SingleExistsVariants == {"helpers", "class"}

SingleExists(variant, selector) ==
  /\ Idle
  /\ call' = [(IF variant = "helpers" THEN window_exists(selector)
               ELSE Doc_exists(selector))
              EXCEPT !.op = "exists(selector)", !.variant = variant,
                     !.selectors = <<selector>>]
  /\ UNCHANGED <<domVars, attrVars, visVars, hostVars>>

(***************************************************************************)
(* Removing an element.                                                    *)
(***************************************************************************)
\* ChildNode.remove: the node leaves its parent's child list and keeps its
\* own subtree; a node without a parent is left as it is
ChildNode_remove(kids, element) ==
  LET parent == parentNode(element)
  IN IF parent = Null THEN kids
     ELSE [kids EXCEPT ![parent] = SelectSeq(@, LAMBDA n : n # element)]

\* a remove that detaches nothing
remove_nothing(kids, element) == kids

\* remove(element)
remove(kids, element) == ChildNode_remove(kids, element)

Remove(element) ==
  /\ Idle
  /\ children' = remove(children, element)
  /\ call' = Return([NoCall EXCEPT !.op = "remove", !.variant = "sync",
                                   !.element = element,
                                   !.wasDetached = (parentNode(element) = Null)])
  /\ UNCHANGED <<cls, attrVars, visVars, hostVars>>

(***************************************************************************)
(* Inserting an element next to another.                                   *)
(***************************************************************************)
\* Node.parentElement: the parent when it is an element, else null
parentElement(n) ==
  LET parent == parentNode(n)
  IN IF parent = Document THEN Null ELSE parent

\* Node.nextSibling
nextSibling(n) ==
  LET parent == parentNode(n)
      at == IF parent = Null THEN 0
            ELSE CHOOSE i \in 1..Len(children[parent]) : children[parent][i] = n
  IN IF parent = Null \/ at = Len(children[parent]) THEN Null
     ELSE children[parent][at + 1]

\* Node.previousSibling
previousSibling(n) ==
  LET parent == parentNode(n)
      at == IF parent = Null THEN 0
            ELSE CHOOSE i \in 1..Len(children[parent]) : children[parent][i] = n
  IN IF parent = Null \/ at = 1 THEN Null ELSE children[parent][at - 1]

RECURSIVE InclusiveAncestors(_)
\* n and the nodes above it
InclusiveAncestors(n) ==
  IF n = Null THEN {} ELSE {n} \cup InclusiveAncestors(IF n = Document THEN Null
                                                       ELSE parentNode(n))

\* the DOM's `ensure pre-insertion validity': a node does not go below
\* itself, and a document holds one element
validInsertion(parent, node) ==
  /\ node \notin InclusiveAncestors(parent)
  /\ parent = Document => children[Document] = <<>>

\* the DOM's `pre-insert' of node into parent before child (Null: at the
\* end): the node leaves the place it had
preInsert(parent, node, child) ==
  IF ~validInsertion(parent, node)
  THEN [kids |-> children, status |-> "HierarchyRequestError", called |-> <<>>]
  ELSE LET reference == IF child = node THEN nextSibling(node) ELSE child
           kids == ChildNode_remove(children, node)
           at == IF reference = Null THEN Len(kids[parent]) + 1
                 ELSE CHOOSE i \in 1..Len(kids[parent]) : kids[parent][i] = reference
       IN [kids |-> [kids EXCEPT ![parent] =
                       SubSeq(@, 1, at - 1) \o <<node>> \o SubSeq(@, at, Len(@))],
           status |-> "ok", called |-> <<>>]

\* parent.insertBefore(new_element, child)
Node_insertBefore(parent, new_element, child) == preInsert(parent, new_element, child)

\* target_element.before(new_element): nothing happens for a target without
\* a parent node
ChildNode_before(target_element, new_element) ==
  LET parent == parentNode(target_element)
      viablePreviousSibling ==
        IF previousSibling(target_element) = new_element
        THEN previousSibling(new_element)
        ELSE previousSibling(target_element)
  IN IF parent = Null THEN [kids |-> children, status |-> "ok", called |-> <<>>]
     ELSE preInsert(parent, new_element,
                    IF viablePreviousSibling = Null
                    THEN Head(children[parent])
                    ELSE nextSibling(viablePreviousSibling))

\* insertBefore(target_element, new_element)
insertBefore(target_element, new_element) ==
  ChildNode_before(target_element, new_element)

\* insertAfter(target_element, new_element)
insertAfter(target_element, new_element) ==
  LET parent == parentElement(target_element)
  IN IF parent = Null
     THEN [kids |-> children, status |-> "NoParent", called |-> <<>>]
     ELSE Node_insertBefore(parent, new_element, nextSibling(target_element))

\* an insert that always inserts after the target
insert_alwaysAfter(target_element, new_element, after) ==
  [insertAfter(target_element, new_element) EXCEPT !.called = <<"insertAfter">>]

\* insert(target_element, new_element, after = true):
\* if (after) insertAfter(...); if (!after) insertBefore(...);
\* `called' lists the helpers that were called.  The second test reads the
\* same after, and a helper that throws ends the function
insert(target_element, new_element, after) ==
  IF after
  THEN [insertAfter(target_element, new_element) EXCEPT !.called = <<"insertAfter">>]
  ELSE [insertBefore(target_element, new_element) EXCEPT !.called = <<"insertBefore">>]

Insert(target_element, new_element, after) ==
  /\ Idle
  /\ LET r == insert(target_element, new_element, after)
     IN /\ children' = r.kids
        /\ call' = [NoCall EXCEPT
                      !.op = "insert", !.variant = "sync", !.status = r.status,
                      !.element = target_element, !.new = new_element,
                      !.after = after,
                      !.wasDetached = (parentElement(target_element) = Null),
                      !.changed = (r.kids # children),
                      !.before = children, !.called = r.called]
  /\ UNCHANGED <<cls, attrVars, visVars, hostVars>>

(***************************************************************************)
(* The specification of the tree and its accessors.                        *)
(***************************************************************************)
\* the trees a page can start with: element 1 is the root element, every
\* other element hangs below an element of a smaller number
InitialTrees ==
  { [t \in Targets |->
       SortedSeq({n \in Nodes : (n = 1 /\ t = Document) \/ (n > 1 /\ p[n] = t)}, rev)]
    : p \in {q \in [Nodes -> Nodes] : \A n \in Nodes : n > 1 => q[n] < n},
      rev \in BOOLEAN }

Init ==
  /\ children \in InitialTrees
  /\ cls \in [Nodes -> Selectors]
  /\ attributes = <<>>
  /\ call = NoCall
  /\ NoPresentation
  /\ NoHost

Next ==
  \/ \E s \in Selectors, t \in Targets : Select(s, t)
  \/ \E v \in SelectAllVariants, s \in Selectors, t \in Targets : SelectAll(v, s, t)
  \/ \E v \in ExistsVariants, l \in SelectorLists, t \in Targets : Exists(v, l, t)
  \/ \E v \in SingleExistsVariants, s \in Selectors : SingleExists(v, s)
  \/ \E e \in Nodes : Remove(e)
  \/ Consume

Spec == Init /\ [][Next]_vars

(***************************************************************************)
(* Properties of the selector accessors and of remove.                     *)
(***************************************************************************)
\* the selector of a call that takes one
Selector(c) == c.selectors[1]
\* the positions of the matches of selector s in the document order below t
Hits(t, s) == {i \in 1..Len(Descendants(t)) : Matches(Descendants(t)[i], s)}
\* the positions of the selectors of list l that match nothing below t
Misses(t, l) == {i \in 1..Len(l) : Hits(t, l[i]) = {}}

\* C1: select(s, target) fails with a not-found error and returns nothing
\* when s has no match under target, and otherwise returns the first match
\* in document order under target.
C1_SelectFirstMatchOrNotFound ==
  call.op = "select" =>
    LET d == Descendants(call.target)
        hits == Hits(call.target, Selector(call))
    IN IF hits = {}
       THEN call.status = "NotFound" /\ call.element = Null
       ELSE /\ call.status = "ok"
            /\ \E i \in hits : d[i] = call.element /\ \A j \in hits : i <= j

\* a select under an element that holds no match, while the document does
C1_Witness ==
  /\ call.op = "select"
  /\ call.target \in Nodes
  /\ Hits(call.target, Selector(call)) = {}
  /\ Hits(Document, Selector(call)) # {}
  /\ call.status = "NotFound"

\* C2: no variant of selectAll returns an empty collection: with zero
\* matches it fails with a not-found error.
C2_SelectAllNeverEmpty ==
  call.op = "selectAll" =>
    /\ ~(call.status = "ok" /\ call.elements = <<>>)
    /\ Hits(call.target, Selector(call)) = {} => call.status = "NotFound"

\* C3: exists(selectors, target) returns true iff every selector of the list
\* matches an element under target (so true for the empty list), and it
\* returns false, without an error, when some selector has no match.
C3_ExistsIffAllMatch ==
  call.op = "exists" =>
    /\ call.status = "ok"
    /\ call.result = (Misses(call.target, call.selectors) = {})

\* an exists over a list whose first selector matches and whose second
\* does not
C3_Witness ==
  /\ call.op = "exists"
  /\ call.variant = "every"
  /\ Misses(call.target, call.selectors) = {2}
  /\ call.status = "ok"
  /\ call.result = FALSE

\* C4 as claimed: exists issues no query for a selector that follows a
\* selector without a match.
C4_ExistsShortCircuits ==
  call.op = "exists" =>
    \A i \in Misses(call.target, call.selectors) : Len(call.queried) <= i

\* C4 as amended: the exists built on every queries the selectors in list
\* order up to and including the first one without a match and no further;
\* the exists built on forEach queries every selector of the list.
C4_EveryShortCircuitsForEachDoesNot ==
  call.op = "exists" =>
    LET misses == Misses(call.target, call.selectors)
        first == CHOOSE i \in misses : \A j \in misses : i <= j
    IN IF call.variant = "every" /\ misses # {}
       THEN call.queried = SubSeq(call.selectors, 1, first)
       ELSE call.queried = call.selectors

\* an every-based exists that stopped before the end of its list
C4_Witness ==
  /\ call.op = "exists"
  /\ call.variant = "every"
  /\ 1 \in Misses(call.target, call.selectors)
  /\ Len(call.selectors) = 2
  /\ call.queried = <<call.selectors[1]>>

\* C10: remove(e) detaches e from its parent, leaving every other child list
\* as it was; on an element that is already detached it changes nothing and
\* raises no error.
C10_RemoveDetaches ==
  [][\A e \in Nodes :
       (call'.op = "remove" /\ call'.element = e) =>
         /\ call'.status = "ok"
         /\ \A p \in Targets :
              children'[p] = SelectSeq(children[p], LAMBDA n : n # e)
         /\ \A p \in Targets : \A i \in 1..Len(children'[p]) : children'[p][i] # e
         /\ parentNode(e) = Null => children' = children]_vars

\* a remove of an element that was detached before the call
C10_Witness ==
  /\ call.op = "remove"
  /\ call.wasDetached
  /\ call.status = "ok"
  /\ parentNode(call.element) = Null

\* C24: the earliest helper window.exists(selector) returns true when the
\* selector matches an element of the document and false when it matches
\* none.
C24_WindowExistsTellsPresence ==
  (call.op = "exists(selector)" /\ call.variant = "helpers") =>
    call.result = (Hits(Document, Selector(call)) # {})

\* the boolean the other revision of exists returns for the same call
OtherExists(c) ==
  IF c.variant = "every" THEN exists_forEach(c.selectors, c.target).result
  ELSE exists(c.selectors, c.target).result

\* C28: the exists built on forEach and the exists built on every return
\* the same boolean for every list of selectors and every document.
C28_ExistsRevisionsAgree ==
  call.op = "exists" => call.result = OtherExists(call)

\* the forEach revision has gone on after a selector without match, and a
\* later selector has a match
C28_Witness ==
  /\ call.op = "exists"
  /\ call.variant = "forEach"
  /\ Len(call.selectors) = 2
  /\ Hits(call.target, call.selectors[1]) = {}
  /\ Hits(call.target, call.selectors[2]) # {}
  /\ call.queried = call.selectors
  /\ ~call.result

(***************************************************************************)
(* Re-resolving handles: ActiveElement and ActiveElements (classes with a  *)
(* private selector and a private element) and the function selectActive   *)
(* returns.  `changes' counts the changes the page has made to the         *)
(* document since the handle was created.                                  *)
(***************************************************************************)
HandleKinds == {"ActiveElement", "ActiveElements", "selectActive"}
\* the selector get is handed; "" stands for the default, null
SubSelectors == {""} \cup Selectors

\* document.querySelector(`${selector} ${sub}`): the first element, in
\* document order, that matches sub below an element that matches selector
querySelectorBelow(selector, sub) ==
  LET found == SelectSeq(Descendants(Document),
                         LAMBDA n : /\ Matches(n, sub)
                                    /\ \E a \in InclusiveAncestors(n) \ {n, Document} :
                                         Matches(a, selector))
  IN IF found = <<>> THEN Null ELSE Head(found)

\* new ActiveElement(selector)
ActiveElement_constructor(selector) ==
  LET element == querySelector(Document, selector)
  IN IF element = Null
     THEN [handle |-> NoHandle, call |-> NotFound(NoCall)]
     ELSE [handle |-> [kind |-> "ActiveElement", selector |-> selector,
                       element |-> element, changes |-> 0],
           call |-> Return(NoCall)]

\* a get that answers with the element it holds
ActiveElement_get_held(h) ==
  [handle |-> h, call |-> Return([NoCall EXCEPT !.element = h.element])]

\* ActiveElement.get(): the message of its Error names `selector', which is
\* no variable of get and none of the module: building the message throws a
\* ReferenceError in place of the Error
ActiveElement_get(h) ==
  LET element == querySelector(Document, h.selector)
  IN IF element = Null
     THEN [handle |-> [h EXCEPT !.element = Null],
           call |-> [NoCall EXCEPT !.status = "ReferenceError"]]
     ELSE [handle |-> [h EXCEPT !.element = element],
           call |-> Return([NoCall EXCEPT !.element = element])]

\* new ActiveElements(selector): `if (!this.#elements) throw', and a
\* NodeList is never falsy
ActiveElements_constructor(selector) ==
  LET elements == querySelectorAll(Document, selector)
  IN [handle |-> [kind |-> "ActiveElements", selector |-> selector,
                  element |-> IF elements = <<>> THEN Null ELSE Head(elements),
                  changes |-> 0],
      call |-> Return([NoCall EXCEPT !.elements = elements])]

\* ActiveElements.get(selector = null)
ActiveElements_get(h, sub) ==
  LET elements == IF sub # "" THEN querySelectorBelow(h.selector, sub)
                  ELSE querySelector(Document, h.selector)
  IN IF elements = Null
     THEN [handle |-> [h EXCEPT !.element = Null], call |-> NotFound(NoCall)]
     ELSE [handle |-> [h EXCEPT !.element = elements],
           call |-> Return([NoCall EXCEPT !.element = elements])]

\* selectActive(selector): returns a function and queries nothing
selectActive(selector) ==
  [handle |-> [kind |-> "selectActive", selector |-> selector,
               element |-> Null, changes |-> 0],
   call |-> Return(NoCall)]

\* the function selectActive returned, called
selectActive_call(h) ==
  LET element == querySelector(Document, h.selector)
  IN IF element = Null
     THEN [handle |-> h, call |-> NotFound(NoCall)]
     ELSE [handle |-> h, call |-> Return([NoCall EXCEPT !.element = element])]

\* the page creates a handle; a constructor that throws leaves it with the
\* handle it had
Create(kind, selector) ==
  /\ kind \in HandleKinds
  /\ Idle
  /\ LET r == CASE kind = "ActiveElement"  -> ActiveElement_constructor(selector)
                [] kind = "ActiveElements" -> ActiveElements_constructor(selector)
                [] kind = "selectActive"   -> selectActive(selector)
     IN /\ handle' = IF r.call.status = "ok" THEN r.handle ELSE handle
        /\ call' = [r.call EXCEPT !.op = "create", !.variant = kind,
                                  !.selectors = <<selector>>]
  /\ UNCHANGED <<domVars, attrVars, visVars, pageVars, scrollVars, storeVars>>

Get(sub) ==
  /\ handle.kind # "none"
  /\ Idle
  /\ sub # "" => handle.kind = "ActiveElements"
  /\ LET r == CASE handle.kind = "ActiveElement"  -> ActiveElement_get(handle)
                [] handle.kind = "ActiveElements" -> ActiveElements_get(handle, sub)
                [] handle.kind = "selectActive"   -> selectActive_call(handle)
     IN /\ handle' = r.handle
        /\ call' = [r.call EXCEPT !.op = "get", !.variant = handle.kind,
                                  !.selectors = <<handle.selector>>, !.sub = sub,
                                  !.held = handle.element]
  /\ UNCHANGED <<domVars, attrVars, visVars, pageVars, scrollVars, storeVars>>

(***************************************************************************)
(* The specification of the handles: a page that creates handles, reads    *)
(* them, and between the reads takes elements out of the document and puts *)
(* elements in.                                                            *)
(***************************************************************************)
\* the page holds a handle
Held == handle.kind # "none"

\* between two reads of its handle the page changes the document
Change(kids) ==
  /\ Held
  /\ Idle
  /\ handle.changes < MaxCalls
  /\ children' = kids
  /\ handle' = [handle EXCEPT !.changes = @ + 1]
  /\ UNCHANGED <<cls, attrVars, visVars, pageVars, scrollVars, storeVars, call>>

\* element.remove(), called by the page
Removed(element) ==
  /\ parentNode(element) # Null
  /\ Change(ChildNode_remove(children, element))

\* parent.appendChild(element), of an element that is in no tree
Added(parent, element) ==
  /\ parentNode(element) = Null
  /\ LET r == preInsert(parent, element, Null)
     IN r.status = "ok" /\ Change(r.kids)

\* old.replaceWith(element), of an element that is in no tree: it takes the
\* place of old
Replaced(old, element) ==
  /\ parentNode(element) = Null
  /\ parentNode(old) # Null
  /\ element \notin InclusiveAncestors(old)
  /\ Change([children EXCEPT ![parentNode(old)] =
               [i \in 1..Len(@) |-> IF @[i] = old THEN element ELSE @[i]]])

NextHandle ==
  \/ \E k \in HandleKinds, s \in Selectors : ~Held /\ Create(k, s)
  \/ \E s \in SubSelectors : Get(s)
  \/ \E e \in Nodes : Removed(e)
  \/ \E t \in Targets, e \in Nodes : Added(t, e)
  \/ \E o, e \in Nodes : Replaced(o, e)
  \/ Consume

SpecHandle == Init /\ [][NextHandle]_vars

(***************************************************************************)
(* The specification of insert: elements are taken out of any tree and     *)
(* inserted next to any element, also one that has no parent.              *)
(***************************************************************************)
InitInsert ==
  /\ children \in InitialTrees
  /\ cls = [n \in Nodes |-> "a"]
  /\ attributes = <<>>
  /\ call = NoCall
  /\ NoPresentation
  /\ NoHost

NextInsert ==
  \/ \E e \in Nodes : Remove(e)
  \/ \E t, n \in Nodes, after \in BOOLEAN : Insert(t, n, after)
  \/ Consume

SpecInsert == InitInsert /\ [][NextInsert]_vars

(***************************************************************************)
(* Properties of the handles and of insert.                                *)
(***************************************************************************)
\* the first match of selector s in the document, Null when there is none
FirstHit(s) ==
  LET d == Descendants(Document)
      hits == Hits(Document, s)
  IN IF hits = {} THEN Null ELSE d[CHOOSE i \in hits : \A j \in hits : i <= j]

\* C15: creating a handle (ActiveElement, ActiveElements, selectActive) for
\* a selector without a match in the document fails with a not-found error
\* at creation.
C15_CreateFailsWithoutMatch ==
  (call.op = "create" /\ FirstHit(Selector(call)) = Null) =>
    (call.status = "NotFound" /\ ~Held)

\* C16: whatever the page has changed in the document since the handle was
\* created, get() returns the element that is the first match of the
\* handle's selector in the document as it is at the call, and no element
\* when the selector has no match then.
C16_GetResolvesAfresh ==
  (call.op = "get" /\ call.sub = "") =>
    IF FirstHit(Selector(call)) = Null
    THEN call.status # "ok" /\ call.element = Null
    ELSE call.status = "ok" /\ call.element = FirstHit(Selector(call))

\* a get() that returned another element than the one the handle held from
\* its last resolution
C16_Witness ==
  /\ call.op = "get"
  /\ call.variant = "ActiveElement"
  /\ call.status = "ok"
  /\ call.held # Null
  /\ call.held # call.element
  /\ handle.changes > 0

\* C17: a get() on a handle whose selector has no match any more fails with
\* the library's not-found error, with no other error, and returns nothing.
C17_GetFailsNotFound ==
  (call.op = "get" /\ call.sub = "" /\ FirstHit(Selector(call)) = Null) =>
    (call.status = "NotFound" /\ call.element = Null)

\* C20: insert on a target that has no parent element fails with the
\* no-parent error, for after = true and for after = false, and changes
\* nothing in any tree.
C20_InsertWithoutParentFails ==
  (call.op = "insert" /\ call.wasDetached) =>
    (call.status = "NoParent" /\ ~call.changed)

\* the parent of n in the trees kids, Null for a node without parent
ParentIn(kids, n) ==
  IF \E q \in Targets : \E i \in 1..Len(kids[q]) : kids[q][i] = n
  THEN CHOOSE q \in Targets : \E i \in 1..Len(kids[q]) : kids[q][i] = n
  ELSE Null

RECURSIVE AboveIn(_, _)
\* n and the elements above it in the trees kids
AboveIn(kids, n) ==
  IF n = Null \/ n = Document THEN {} ELSE {n} \cup AboveIn(kids, ParentIn(kids, n))

\* the place of n in the sequence seq, 0 when it is not in it
PlaceIn(seq, n) ==
  IF \E i \in 1..Len(seq) : seq[i] = n
  THEN CHOOSE i \in 1..Len(seq) : seq[i] = n ELSE 0

\* the call put new_element next to target_element on the side asked for,
\* under the parent the target had, with the other children in the order
\* they had, and called the one helper of that side
Placed(c) ==
  LET parent == ParentIn(c.before, c.element)
      now == children[parent]
  IN /\ c.status = "ok"
     /\ ParentIn(children, c.new) = parent
     /\ PlaceIn(now, c.new) = PlaceIn(now, c.element) + (IF c.after THEN 1 ELSE -1)
     /\ SelectSeq(now, LAMBDA n : n # c.new) =
          SelectSeq(c.before[parent], LAMBDA n : n # c.new)
     /\ \A q \in Targets \ {parent} :
          children[q] = SelectSeq(c.before[q], LAMBDA n : n # c.new)
     /\ c.called = <<IF c.after THEN "insertAfter" ELSE "insertBefore">>

\* C30 as claimed: insert(target, newElement, after) on a target that has
\* a parent puts newElement right after target when after is true and right
\* before it when after is false, keeps the order of the other siblings,
\* and calls exactly one of insertAfter and insertBefore.
C30_InsertPlacesNextToTarget ==
  (call.op = "insert" /\ ~call.wasDetached) => Placed(call)

\* C30 as amended: the same for a newElement that is neither target nor an
\* element above target; with newElement above target the one helper called
\* fails with the host's HierarchyRequestError, and with newElement = target
\* it returns normally, and in both cases every tree is as it was.
C30_InsertPlacesInsertable ==
  (call.op = "insert" /\ ~call.wasDetached) =>
    IF call.new \notin AboveIn(call.before, call.element) THEN Placed(call)
    ELSE /\ children = call.before
         /\ call.called = <<IF call.after THEN "insertAfter" ELSE "insertBefore">>
         /\ call.status = IF call.new = call.element THEN "ok"
                          ELSE "HierarchyRequestError"

\* an element that followed the target has been moved to the place before
\* it by insert(target, newElement, false)
C30_Witness ==
  /\ call.op = "insert"
  /\ ~call.after
  /\ call.status = "ok"
  /\ LET parent == ParentIn(call.before, call.element)
     IN /\ parent # Null
        /\ call.before[parent] = <<call.element, call.new>>
        /\ children[parent] = <<call.new, call.element>>

(***************************************************************************)
(* Attribute and data readers.  Names are sequences of characters, so that *)
(* a prefix test and the dataset's name conversion are computed.           *)
(***************************************************************************)
N_id == <<"i", "d">>
N_data == <<"d", "a", "t", "a">>
N_data_ == <<"d", "a", "t", "a", "-">>
N_data_a == <<"d", "a", "t", "a", "-", "a">>
N_data_a_b == <<"d", "a", "t", "a", "-", "a", "-", "b">>

AttributeNames == {N_id, N_data, N_data_, N_data_a, N_data_a_b}
AttributeValues == {"", "x"}
\* the names getData is asked for; the empty name stands for `no name given'
\* too: null and "" are both falsy and take the same branch
DataNames == {<<>>, <<"a">>, <<"a", "B">>, <<"a", "-", "b">>, N_id}

\* the names getAttibute is asked for
AttributeQueries == {<<"a">>, <<"A">>, N_id, N_data_a}

\* element.attributes: a NamedNodeMap holds each name at most once
AttributeLists ==
  {l \in SeqsUpTo([name : AttributeNames, value : AttributeValues], MaxAttributes) :
     \A i, j \in 1..Len(l) : l[i].name = l[j].name => i = j}

\* String.prototype.startsWith
startsWith(name, prefix) ==
  Len(name) >= Len(prefix) /\ SubSeq(name, 1, Len(prefix)) = prefix

DataPrefix == <<"d", "a", "t", "a", "-">>
LowerAlpha == {"a", "b", "d", "i", "t"}
toUpperCase(c) ==
  CASE c = "a" -> "A" [] c = "b" -> "B" [] c = "d" -> "D"
    [] c = "i" -> "I" [] c = "t" -> "T" [] OTHER -> c

RECURSIVE camelCase(_)
\* the dataset's name conversion: a hyphen followed by a lower-case letter
\* becomes that letter in upper case
camelCase(chars) ==
  IF chars = <<>> THEN <<>>
  ELSE IF Head(chars) = "-" /\ Len(chars) >= 2 /\ chars[2] \in LowerAlpha
       THEN <<toUpperCase(chars[2])>> \o camelCase(SubSeq(chars, 3, Len(chars)))
       ELSE <<Head(chars)>> \o camelCase(Tail(chars))

RECURSIVE dataset(_)
\* element.dataset as Object.entries lists it: one [key, value] for every
\* attribute whose name starts with data-, in attribute order
dataset(attrs) ==
  IF attrs = <<>> THEN <<>>
  ELSE (IF startsWith(Head(attrs).name, DataPrefix)
        THEN <<[key |-> camelCase(SubSeq(Head(attrs).name, Len(DataPrefix) + 1,
                                         Len(Head(attrs).name))),
                value |-> Head(attrs).value]>>
        ELSE <<>>) \o dataset(Tail(attrs))

\* element.dataset[name]: the value as a string, undefined without the key
datasetGet(attrs, name) ==
  LET d == dataset(attrs)
      at == {i \in 1..Len(d) : d[i].key = name}
  IN IF at = {} THEN Undefined ELSE Str(d[CHOOSE i \in at : TRUE].value)

\* !value for undefined or a string
Falsy(value) == value = Undefined \/ (value.type = "string" /\ Len(value.text) = 0)

RECURSIVE allValued(_, _)
\* the loop without its test: every data attribute is reported as true
allValued(entries, result) ==
  IF entries = <<>> THEN result
  ELSE allValued(Tail(entries), (Head(entries).key :> True) @@ result)

RECURSIVE emptyValued(_, _)
\* for (const [key, value] of Object.entries(element.dataset))
\*   if (value?.length === 0) result[key] = true
emptyValued(entries, result) ==
  IF entries = <<>> THEN result
  ELSE emptyValued(Tail(entries),
                   IF Len(Head(entries).value) = 0
                   THEN (Head(entries).key :> True) @@ result
                   ELSE result)

\* getData(element, data_name = null) of doc.ts and its compiled form
getData(attrs, data_name) ==
  IF data_name # <<>>
  THEN LET value == datasetGet(attrs, data_name)
       IN IF value = Undefined
          THEN NotFound(NoCall)
          ELSE Return([NoCall EXCEPT
                         !.value = IF Len(value.text) = 0 THEN True ELSE value])
  ELSE Return([NoCall EXCEPT !.value = Obj(emptyValued(dataset(attrs), <<>>))])

\* getData(element, dataName = null) of the .mjs revision: `if (!value) throw'
getData_mjs(attrs, dataName) ==
  IF dataName # <<>>
  THEN LET value == datasetGet(attrs, dataName)
       IN IF Falsy(value)
          THEN NotFound(NoCall)
          ELSE Return([NoCall EXCEPT !.value = value])
  ELSE Return([NoCall EXCEPT !.value = Obj(emptyValued(dataset(attrs), <<>>))])

GetDataVariants == {"ts", "mjs"}

GetData(variant, data_name) ==
  /\ variant \in GetDataVariants
  /\ Idle
  /\ call' = [(CASE variant = "ts"  -> getData(attributes, data_name)
                 [] variant = "mjs" -> getData_mjs(attributes, data_name))
              EXCEPT !.op = "getData", !.variant = variant, !.name = data_name]
  /\ UNCHANGED <<domVars, attrVars, visVars, hostVars>>

RECURSIVE reduce_unfiltered(_, _)
\* the reduce without its test of the name
reduce_unfiltered(attrs, accum) ==
  IF attrs = <<>> THEN accum
  ELSE reduce_unfiltered(Tail(attrs),
                         (Head(attrs).name :> Str(Head(attrs).value)) @@ accum)

RECURSIVE reduce(_, _)
\* attributes.reduce((accum, current) => ..., {}): an attribute whose name
\* starts with "data-" is skipped, any other is assigned into accum
reduce(attrs, accum) ==
  IF attrs = <<>> THEN accum
  ELSE reduce(Tail(attrs),
              IF startsWith(Head(attrs).name, DataPrefix)
              THEN accum
              ELSE (Head(attrs).name :> Str(Head(attrs).value)) @@ accum)

\* getAttibutes(element)
getAttibutes(attrs) == Return([NoCall EXCEPT !.value = Obj(reduce(attrs, <<>>))])

GetAttibutes ==
  /\ Idle
  /\ call' = [getAttibutes(attributes) EXCEPT !.op = "getAttibutes", !.variant = "sync"]
  /\ UNCHANGED <<domVars, attrVars, visVars, hostVars>>

\* String.prototype.toLowerCase, as getNamedItem applies it to the name it
\* is given on an element of an HTML document
toLowerCase(chars) ==
  [i \in 1..Len(chars) |->
     CASE chars[i] = "A" -> "a" [] chars[i] = "B" -> "b" [] chars[i] = "D" -> "d"
       [] chars[i] = "I" -> "i" [] chars[i] = "T" -> "t" [] OTHER -> chars[i]]

\* element.attributes.getNamedItem(name): the place of the attribute of
\* that name in the list, Null when there is none
getNamedItem(attrs, name) ==
  LET at == {i \in 1..Len(attrs) : attrs[i].name = toLowerCase(name)}
  IN IF at = {} THEN Null ELSE CHOOSE i \in at : TRUE

\* getAttibute(element, attribute_name): the attribute looked up is
\* `data-${attribute_name}'; a missing attribute and an attribute with empty
\* textContent both throw the error
getAttibute(attrs, attribute_name) ==
  LET attribute == getNamedItem(attrs, DataPrefix \o attribute_name)
  IN IF attribute = Null THEN NotFound(NoCall)
     ELSE IF attrs[attribute].value = "" THEN NotFound(NoCall)
     ELSE Return([NoCall EXCEPT !.value = Str(attrs[attribute].value)])

\* getAttibute of the promise-returning revision: reject for a missing
\* attribute, reject for an empty one, then resolve when there is one
getAttibute_promise(attrs, attribute_name) ==
  LET attribute == getNamedItem(attrs, DataPrefix \o attribute_name)
  IN Settle((IF attribute = Null THEN <<NotFound(NoCall)>> ELSE <<>>)
            \o (IF attribute # Null /\ attrs[attribute].value = ""
                THEN <<NotFound(NoCall)>> ELSE <<>>)
            \o (IF attribute # Null
                THEN <<Return([NoCall EXCEPT !.value = Str(attrs[attribute].value)])>>
                ELSE <<>>))

\* element.dataset as an object: every data attribute under its key
datasetObject(attrs) ==
  LET d == dataset(attrs)
  IN Obj([k \in {d[i].key : i \in 1..Len(d)} |-> datasetGet(attrs, k)])

\* getData of the promise-returning revision: with a name, reject when the
\* value is falsy, then resolve(value); then, with or without a name,
\* resolve(element.dataset)
getData_promise(attrs, data_name) ==
  LET value == datasetGet(attrs, data_name)
  IN Settle((IF data_name # <<>>
             THEN (IF Falsy(value) THEN <<NotFound(NoCall)>> ELSE <<>>)
                    \o <<Return([NoCall EXCEPT !.value = value])>>
             ELSE <<>>)
            \o <<Return([NoCall EXCEPT !.value = datasetObject(attrs)])>>)

GetAttibuteVariants == {"sync", "promise"}

GetAttibute(variant, attribute_name) ==
  /\ Idle
  /\ call' = [(IF variant = "promise" THEN getAttibute_promise(attributes, attribute_name)
               ELSE getAttibute(attributes, attribute_name))
              EXCEPT !.op = "getAttibute", !.variant = variant, !.name = attribute_name]
  /\ UNCHANGED <<domVars, attrVars, visVars, hostVars>>

GetDataPromise(data_name) ==
  /\ Idle
  /\ call' = [getData_promise(attributes, data_name)
              EXCEPT !.op = "getData", !.variant = "promise", !.name = data_name]
  /\ UNCHANGED <<domVars, attrVars, visVars, hostVars>>

(***************************************************************************)
(* The specification of the readers: an element with any attribute list,   *)
(* read by getData and getAttibutes.                                       *)
(***************************************************************************)
\* the tree takes no part: a chain of elements that is not queried
NoTree ==
  /\ children = [t \in Targets |-> IF t < NumNodes THEN <<t + 1>> ELSE <<>>]
  /\ cls = [n \in Nodes |-> "a"]

InitAttr ==
  /\ NoTree
  /\ attributes \in AttributeLists
  /\ call = NoCall
  /\ NoPresentation
  /\ NoHost

NextAttr ==
  \/ \E v \in GetDataVariants, n \in DataNames : GetData(v, n)
  \/ GetAttibutes
  \/ \E v \in GetAttibuteVariants, n \in AttributeQueries : GetAttibute(v, n)
  \/ Consume

SpecAttr == InitAttr /\ [][NextAttr]_vars

(***************************************************************************)
(* The specification of the promise-returning readers: a document of       *)
(* elements matching either selector, an element with any attribute list,  *)
(* and a page that calls selectAll, getData and getAttibute.               *)
(***************************************************************************)
InitPromise ==
  /\ children = [t \in Targets |-> IF t < NumNodes THEN <<t + 1>> ELSE <<>>]
  /\ cls \in [Nodes -> Selectors]
  /\ attributes \in AttributeLists
  /\ call = NoCall
  /\ NoPresentation
  /\ NoHost

NextPromise ==
  \/ \E s \in Selectors : SelectAll("promise", s, Document)
  \/ \E n \in DataNames : GetDataPromise(n)
  \/ \E n \in AttributeQueries : GetAttibute("promise", n)
  \/ Consume

SpecPromise == InitPromise /\ [][NextPromise]_vars

(***************************************************************************)
(* Properties of the readers.                                              *)
(***************************************************************************)
\* the positions of the attributes that are data attributes
DataAttributes ==
  {i \in 1..Len(attributes) :
     /\ Len(attributes[i].name) >= 5
     /\ \A k \in 1..5 : attributes[i].name[k] = DataPrefix[k]}
\* the data name of the data attribute at position i
DataName(i) == camelCase(SubSeq(attributes[i].name, 6, Len(attributes[i].name)))

\* C5: getData(e, n) returns true when e has data attribute n with the
\* empty string as value, the string when the value is not empty, and fails
\* with a not-found error when e has no data attribute n.
C5_GetDataByName ==
  (call.op = "getData" /\ call.name # <<>>) =>
    LET at == {i \in DataAttributes : DataName(i) = call.name}
    IN IF at = {}
       THEN call.status = "NotFound"
       ELSE \A i \in at :
              /\ call.status = "ok"
              /\ call.value = IF attributes[i].value = "" THEN True
                              ELSE Str(attributes[i].value)

Named(name) == {i \in 1..Len(attributes) : attributes[i].name = toLowerCase(name)}

\* C25: getAttibute(e, name) returns the text value of the attribute named
\* name on e, and fails with a not-found error only when e has no attribute
\* of that name.
C25_GetAttibuteByName ==
  call.op = "getAttibute" =>
    IF Named(call.name) = {}
    THEN call.status = "NotFound"
    ELSE \A i \in Named(call.name) :
           call.status = "ok" /\ call.value = Str(attributes[i].value)

\* C26: a promise of the promise-returning selectAll, getData and
\* getAttibute is settled by the not-found branch whenever that branch is
\* taken, whatever the executor calls afterwards: selectAll with no match
\* is rejected, never resolved with an empty collection; getData(e, name)
\* with a non-empty value resolves to that value, never to the dataset, and
\* with an empty or a missing value is rejected; getAttibute with a missing
\* or an empty data attribute is rejected.
C26_FirstSettlementStands ==
  /\ (call.op = "selectAll" /\ call.variant = "promise"
        /\ Hits(Document, Selector(call)) = {}) =>
       (call.status = "NotFound" /\ call.elements = <<>>)
  /\ (call.op = "getData" /\ call.variant = "promise" /\ call.name # <<>>) =>
       LET value == datasetGet(attributes, call.name)
       IN IF Falsy(value) THEN call.status = "NotFound"
          ELSE call.status = "ok" /\ call.value = value
  /\ (call.op = "getAttibute" /\ call.variant = "promise") =>
       LET attribute == getNamedItem(attributes, DataPrefix \o call.name)
       IN (attribute = Null \/ attributes[attribute].value = "") =>
            call.status = "NotFound"

\* getData was asked for a name whose value is not empty, on an element
\* with a second data attribute, and its promise resolved to the value
C26_Witness ==
  /\ call.op = "getData"
  /\ call.variant = "promise"
  /\ call.name = <<"a">>
  /\ call.status = "ok"
  /\ call.value = Str("x")
  /\ Len(dataset(attributes)) = 2

(***************************************************************************)
(* Scroll helpers.  The window has a scroll position, scrollY; the element *)
(* measured lies docTop below the top of the document.  A host reports the *)
(* scroll position in window.pageYOffset, in documentElement.scrollTop, or *)
(* in both.                                                                *)
(***************************************************************************)
Positions == 0..MaxScroll
\* a standards-mode page reports the position in both places, a quirks-mode
\* page scrolls the body and leaves documentElement.scrollTop at 0, a
\* legacy host has no window.pageYOffset
Hosts == {"standard", "quirks", "legacy"}

\* window.pageYOffset
pageYOffset(w) == IF w.host = "legacy" THEN Undefined ELSE Num(w.scrollY)
\* document.documentElement.scrollTop
scrollTop(w) == Num(IF w.host = "quirks" THEN 0 ELSE w.scrollY)
\* element.getBoundingClientRect().top: relative to the viewport
rectTop(w) == w.docTop - w.scrollY

\* ToBoolean of undefined or a number
truthy(v) == v.type = "number" /\ v.value # 0
\* a || b
Or(a, b) == IF truthy(a) THEN a ELSE b

\* a distanceFromTop that reads window.pageYOffset only
distanceFromTop_pageYOffset(w) ==
  LET v == pageYOffset(w)
  IN rectTop(w) + (IF v.type = "number" THEN v.value ELSE 0)

\* distanceFromTop(element)
distanceFromTop(w) ==
  LET scrollTop_ == Or(pageYOffset(w), scrollTop(w))
  IN rectTop(w) + scrollTop_.value

\* the options a caller hands over: an object literal with or without a
\* boolean smooth and with or without a number topOffset
Options ==
  {a @@ b : a \in {<<>>} \cup {[smooth |-> x] : x \in BOOLEAN},
            b \in {<<>>} \cup {[topOffset |-> t] : t \in Positions}}

\* const default_options = { smooth: true, topOffset: 0 }
default_options == [smooth |-> TRUE, topOffset |-> 0]
\* Object.assign(target, source): the properties of source overwrite
assign(target, source) == source @@ target
\* the two objects after Object.assign(target, source): target is written,
\* source is only read
assigned(target, source) == [target |-> assign(target, source), source |-> source]

\* a default_options that is the object the last call left behind
defaults_kept(w) == w.merged

\* the object default_options names in a call: the literal is evaluated in
\* the body of the function, so every call starts from a new object
defaults(w) == default_options

\* the position a requested top comes to: the window scrolls no further
\* than its ends
clamp(top) == IF top < 0 THEN 0 ELSE IF top > MaxScroll THEN MaxScroll ELSE top

\* window.scroll({top, behavior}): an "auto" request moves the window within
\* the call; a "smooth" request starts an animation towards the position.
\* A request ends the animation of an earlier one.
scroll(w, request) ==
  [w EXCEPT !.scrollY = IF request.behavior = "auto" THEN clamp(request.top) ELSE @,
            !.target = IF request.behavior = "auto" THEN -1 ELSE clamp(request.top)]

\* { top: ..., behavior: default_options.smooth ? "smooth" : "auto" }
ScrollRequest(top, d) == [top |-> top, behavior |-> IF d.smooth THEN "smooth" ELSE "auto"]

\* a scrollToTop that ignores options.smooth
scrollToTop_alwaysSmooth(w, options) ==
  LET d == assign(default_options, options)
      request == [top |-> d.topOffset, behavior |-> "smooth"]
  IN [win |-> scroll(w, request),
      call |-> Return([NoCall EXCEPT !.requests = <<request>>, !.value = True])]

\* scrollToTop(options = {})
scrollToTop(w, options) ==
  LET o == assigned(defaults(w), options)
      d == o.target
      request == ScrollRequest(d.topOffset, d)
  IN [win |-> [scroll(w, request) EXCEPT !.merged = d],
      call |-> Return([NoCall EXCEPT !.requests = <<request>>, !.value = True,
                                     !.before = w.merged, !.passed = o.source])]

\* a scrollToElement that adds the offset
scrollToElement_plusOffset(w, options) ==
  LET d == assign(default_options, options)
      request == ScrollRequest(distanceFromTop(w) + d.topOffset, d)
  IN [win |-> scroll(w, request),
      call |-> Return([NoCall EXCEPT !.requests = <<request>>, !.value = True])]

\* scrollToElement(element, options = {})
scrollToElement(w, options) ==
  LET o == assigned(defaults(w), options)
      d == o.target
      topPixels == distanceFromTop(w)
      request == ScrollRequest(topPixels - d.topOffset, d)
  IN [win |-> [scroll(w, request) EXCEPT !.merged = d],
      call |-> Return([NoCall EXCEPT !.requests = <<request>>, !.value = True,
                                     !.before = w.merged, !.passed = o.source])]

\* the revisions declared `: void', and window.scrollToElement of helpers.js,
\* end without a return statement
withoutReturn(r) == [r EXCEPT !.call.value = Undefined]

\* a scroll helper that hands back nothing in every revision
returning_nothing(variant, r) == withoutReturn(r)

\* what revision `variant' of a scroll helper hands back for the work r
returning(variant, r) ==
  IF variant \in {"void", "helpers"} THEN withoutReturn(r) ELSE r

ScrollVariants == {"sync", "promise", "void", "helpers"}

(***************************************************************************)
(* The event loop.  A script runs to its end; then every microtask runs,   *)
(* and only then the next task.  The loop counts the calls made and the    *)
(* timers set, and keeps the calls whose host call has been made (done),   *)
(* the calls that went through an await (awaited) and the timer whose task *)
(* ran last (ran).  A timer's task carries the calls made before the timer *)
(* was set (after).                                                        *)
(***************************************************************************)
Task(kind, id, topPixels, d, after) ==
  [kind |-> kind, id |-> id, topPixels |-> topPixels, d |-> d, after |-> after]

\* a continuation that is queued as a task of its own
await_asTask(l, k) == [l EXCEPT !.tasks = Append(@, k)]

\* await of a promise: what follows the await is queued as a microtask
await(l, k) == [l EXCEPT !.micro = Append(@, k)]

\* select of the promise-returning revision: the executor runs inside the
\* call and settles the promise with the outcome of the query
select_promise(selector) ==
  LET element == querySelector(Document, selector)
  IN Settle(<<IF element = Null
              THEN NotFound(NoCall)
              ELSE Return([NoCall EXCEPT !.element = element])>>)

\* scrollToElement of the promise-returning revision up to its await: the
\* options are assigned and distanceFromTop's executor has read the element
scrollToElement_promise(w, id, options) ==
  Task("resume", id, distanceFromTop(w), assign(default_options, options), {})

\* scrollToElement of the promise-returning revision after its await
scrollToElement_resume(w, k) ==
  LET request == ScrollRequest(k.topPixels - k.d.topOffset, k.d)
  IN [win |-> scroll(w, request),
      call |-> Return([NoCall EXCEPT !.requests = <<request>>, !.value = True])]

InScript == loop.running = "script" /\ Idle /\ loop.calls < MaxCalls

DistanceFromTop ==
  /\ InScript
  /\ LET id == loop.calls + 1
     IN /\ call' = [Return([NoCall EXCEPT !.value = Num(distanceFromTop(win))])
                    EXCEPT !.op = "distanceFromTop", !.variant = "sync", !.id = id]
        /\ loop' = [loop EXCEPT !.calls = id, !.done = @ \cup {id}]
  /\ UNCHANGED <<domVars, attrVars, visVars, pageVars, handleVars, storeVars, win>>

ScrollToTop(variant, options) ==
  /\ variant \in ScrollVariants \ {"helpers"}
  /\ InScript
  /\ LET r == returning(variant, scrollToTop(win, options))
         id == loop.calls + 1
     IN /\ win' = r.win
        /\ call' = [r.call EXCEPT !.op = "scrollToTop", !.variant = variant,
                                  !.options = options, !.id = id]
        /\ loop' = [loop EXCEPT !.calls = id, !.done = @ \cup {id}]
  /\ UNCHANGED <<domVars, attrVars, visVars, pageVars, handleVars, storeVars>>

ScrollToElement(variant, options) ==
  /\ variant \in ScrollVariants \ {"promise"}
  /\ InScript
  /\ LET r == returning(variant, scrollToElement(win, options))
         id == loop.calls + 1
     IN /\ win' = r.win
        /\ call' = [r.call EXCEPT !.op = "scrollToElement", !.variant = variant,
                                  !.options = options, !.id = id]
        /\ loop' = [loop EXCEPT !.calls = id, !.done = @ \cup {id}]
  /\ UNCHANGED <<domVars, attrVars, visVars, pageVars, handleVars, storeVars>>

\* the call of the promise-returning scrollToElement: it returns a pending
\* promise
ScrollToElementPromise(options) ==
  /\ InScript
  /\ LET id == loop.calls + 1
     IN /\ call' = [NoCall EXCEPT !.op = "scrollToElement", !.variant = "promise",
                                  !.status = "pending", !.options = options, !.id = id]
        /\ loop' = [await(loop, scrollToElement_promise(win, id, options)) EXCEPT
                      !.calls = id, !.awaited = @ \cup {id}]
  /\ UNCHANGED <<domVars, attrVars, visVars, pageVars, handleVars, storeVars, win>>

\* what follows the await runs, and the promise is resolved
Resume(k) ==
  LET r == scrollToElement_resume(win, k)
  IN /\ win' = r.win
     /\ call' = [r.call EXCEPT !.op = "scrollToElement", !.variant = "promise",
                               !.id = k.id]

Microtask ==
  /\ loop.running = "none"
  /\ Idle
  /\ loop.micro # <<>>
  /\ Resume(Head(loop.micro))
  /\ loop' = [loop EXCEPT !.micro = Tail(@), !.done = @ \cup {Head(loop.micro).id}]
  /\ UNCHANGED <<domVars, attrVars, visVars, pageVars, handleVars, storeVars>>

SelectPromise(selector) ==
  /\ InScript
  /\ LET id == loop.calls + 1
     IN /\ call' = [select_promise(selector) EXCEPT
                      !.op = "select", !.variant = "promise",
                      !.selectors = <<selector>>, !.id = id]
        /\ loop' = [loop EXCEPT !.calls = id, !.done = @ \cup {id}]
  /\ UNCHANGED <<domVars, attrVars, visVars, pageVars, handleVars, storeVars, win>>

\* the script sets a timer: its callback is a task of its own
SetTimeout ==
  /\ loop.running = "script"
  /\ Idle
  /\ loop.timers < MaxCalls
  /\ LET id == loop.timers + 1
     IN loop' = [loop EXCEPT
                  !.timers = id,
                  !.tasks = Append(@, Task("timer", id, 0, default_options, 1..loop.calls))]
  /\ UNCHANGED <<domVars, attrVars, visVars, pageVars, handleVars, storeVars, win, call>>

\* the running script ends
EndScript ==
  /\ loop.running = "script"
  /\ Idle
  /\ loop' = [loop EXCEPT !.running = "none"]
  /\ UNCHANGED <<domVars, attrVars, visVars, pageVars, handleVars, storeVars, win, call>>

\* s without its i-th element
Without(seq, i) == SubSeq(seq, 1, i - 1) \o SubSeq(seq, i + 1, Len(seq))

\* the tasks the loop may run next: the oldest of each task source
Runnable ==
  {i \in 1..Len(loop.tasks) :
     \A j \in 1..(i - 1) : loop.tasks[j].kind # loop.tasks[i].kind}

\* the next task runs: no script is running and no microtask is left
RunTask(i) ==
  /\ loop.running = "none"
  /\ Idle
  /\ loop.micro = <<>>
  /\ i \in Runnable
  /\ LET k == loop.tasks[i]
     IN IF k.kind = "timer"
        THEN /\ loop' = [loop EXCEPT !.running = "script", !.tasks = Without(@, i),
                                     !.ran = [id |-> k.id, after |-> k.after]]
             /\ UNCHANGED <<win, call>>
        ELSE /\ Resume(k)
             /\ loop' = [loop EXCEPT !.tasks = Without(@, i), !.done = @ \cup {k.id}]
  /\ UNCHANGED <<domVars, attrVars, visVars, pageVars, handleVars, storeVars>>

\* between two tasks the window moves on to where a smooth request sent it
ScrollAnimation ==
  /\ loop.running = "none"
  /\ loop.micro = <<>>
  /\ win.target # -1
  /\ win' = [win EXCEPT !.scrollY = win.target, !.target = -1]
  /\ UNCHANGED <<domVars, attrVars, visVars, pageVars, handleVars, storeVars, loop, call>>

(***************************************************************************)
(* The specification of the scroll helpers: a window at any position, on   *)
(* any host, and a script that calls the helpers with any options.         *)
(***************************************************************************)
InitScroll ==
  /\ NoTree
  /\ attributes = <<>>
  /\ call = NoCall
  /\ NoPresentation
  /\ win \in {[NoScroll EXCEPT !.scrollY = y, !.host = h, !.docTop = t] :
                y \in Positions, h \in Hosts, t \in Positions}
  /\ loop = [NoLoop EXCEPT !.running = "script"]
  /\ handle = NoHandle
  /\ storage = NoStorage
  /\ record = NoRecord
  /\ NoPage

NextScroll ==
  \/ \E v \in ScrollVariants, o \in Options : ScrollToTop(v, o)
  \/ \E v \in ScrollVariants, o \in Options : ScrollToElement(v, o)
  \/ DistanceFromTop
  \/ EndScript
  \/ ScrollAnimation
  \/ Consume

SpecScroll == InitScroll /\ [][NextScroll]_vars

(***************************************************************************)
(* The specification of the event loop: a script that calls the helpers of *)
(* every revision, the promise-returning ones too, and sets timers; the    *)
(* microtasks and the tasks it leaves behind run after it.                 *)
(***************************************************************************)
\* the options the scripts of this specification hand over
LoopOptions == {<<>>, [smooth |-> FALSE, topOffset |-> 1]}

InitLoop ==
  /\ NoTree
  /\ attributes = <<>>
  /\ call = NoCall
  /\ NoPresentation
  /\ win \in {[NoScroll EXCEPT !.docTop = t] : t \in Positions}
  /\ loop = [NoLoop EXCEPT !.running = "script"]
  /\ handle = NoHandle
  /\ storage = NoStorage
  /\ record = NoRecord
  /\ NoPage

NextLoop ==
  \/ \E v \in ScrollVariants, o \in LoopOptions : ScrollToTop(v, o)
  \/ \E v \in ScrollVariants, o \in LoopOptions : ScrollToElement(v, o)
  \/ \E o \in LoopOptions : ScrollToElementPromise(o)
  \/ \E s \in Selectors : SelectPromise(s)
  \/ Microtask
  \/ SetTimeout
  \/ EndScript
  \/ \E i \in 1..MaxCalls : RunTask(i)
  \/ ScrollAnimation
  \/ Consume

SpecLoop == InitLoop /\ [][NextLoop]_vars

(***************************************************************************)
(* Properties of the scroll helpers and of the event loop.                 *)
(***************************************************************************)
\* options.name, or default when the caller gave none
Given(options, name, default) ==
  IF name \in DOMAIN options THEN options[name] ELSE default

\* C11: scrollToTop(options) issues exactly one scroll request; its top is
\* options.topOffset, 0 when not given; it is immediate ("auto", the window
\* is at the position when the call returns) when options.smooth is false
\* and animated ("smooth") otherwise, also when smooth is not given.
C11_ScrollToTopRequest ==
  (call.op = "scrollToTop") =>
    /\ Len(call.requests) = 1
    /\ call.requests[1].top = Given(call.options, "topOffset", 0)
    /\ call.requests[1].behavior =
         (IF Given(call.options, "smooth", TRUE) = FALSE THEN "auto" ELSE "smooth")
    /\ call.requests[1].behavior = "auto" => win.scrollY = clamp(call.requests[1].top)

\* scrollToTop({topOffset: 1, smooth: false}) has requested an immediate
\* scroll to 1
C11_Witness ==
  /\ call.op = "scrollToTop"
  /\ Given(call.options, "smooth", TRUE) = FALSE
  /\ Given(call.options, "topOffset", 0) = 1
  /\ call.requests = <<[top |-> 1, behavior |-> "auto"]>>
  /\ win.scrollY = 1

\* C12: scrollToElement(e, options) issues one scroll request; its top is
\* the distance of e from the top of the document (the top of its rectangle
\* plus the scroll position) minus options.topOffset, 0 when not given, and
\* it is animated unless options.smooth is false.
C12_ScrollToElementRequest ==
  (call.op = "scrollToElement" /\ call.requests # <<>>) =>
    /\ Len(call.requests) = 1
    /\ call.requests[1].top =
         rectTop(win) + win.scrollY - Given(call.options, "topOffset", 0)
    /\ call.requests[1].behavior =
         (IF Given(call.options, "smooth", TRUE) = FALSE THEN "auto" ELSE "smooth")

\* scrollToElement with a topOffset, called on a scrolled window
C12_Witness ==
  /\ call.op = "scrollToElement"
  /\ Given(call.options, "topOffset", 0) = 1
  /\ win.docTop = MaxScroll
  /\ call.requests = <<[top |-> MaxScroll - 1, behavior |-> "smooth"]>>

\* C29: scroll options do not leak between calls: in a sequence of
\* scrollToTop and scrollToElement calls, a call uses smooth = true and
\* topOffset = 0 for every option its own argument does not give, whatever
\* the call before it was given, and the caller's options object is as it
\* was passed.
C29_OptionsDoNotLeak ==
  (call.op \in {"scrollToTop", "scrollToElement"} /\ call.requests # <<>>
     /\ call.variant # "promise") =>
    /\ win.merged.smooth = Given(call.options, "smooth", TRUE)
    /\ win.merged.topOffset = Given(call.options, "topOffset", 0)
    /\ call.requests[1].behavior = (IF win.merged.smooth THEN "smooth" ELSE "auto")
    /\ call.requests[1].top =
         (IF call.op = "scrollToTop" THEN 0 ELSE rectTop(win) + win.scrollY)
           + (IF call.op = "scrollToTop" THEN 1 ELSE -1) * win.merged.topOffset
    /\ call.passed = call.options

\* a call without options that follows a call with both options given
C29_Witness ==
  /\ call.op = "scrollToTop"
  /\ call.id = 2
  /\ call.options = <<>>
  /\ call.before = [smooth |-> FALSE, topOffset |-> 1]
  /\ call.requests = <<[top |-> 0, behavior |-> "smooth"]>>

\* C13 as claimed: scrollToElement and scrollToTop return true, or a
\* promise that resolves to true, in every revision.
C13_ScrollAlwaysTrue ==
  (call.op \in {"scrollToElement", "scrollToTop"} /\ call.status # "pending") =>
    (call.status = "ok" /\ call.value = True)

\* C13 as amended: no revision of scrollToElement and scrollToTop fails;
\* the boolean-returning and the promise-returning revisions hand back
\* true, the revisions without a return statement hand back undefined.
C13_ScrollReturns ==
  (call.op \in {"scrollToElement", "scrollToTop"} /\ call.status # "pending") =>
    /\ call.status = "ok"
    /\ call.variant \in {"sync", "promise"} => call.value = True
    /\ call.variant \in {"void", "helpers"} => call.value = Undefined

\* the promise of scrollToElement has been resolved with true
C13_Witness ==
  /\ call.op = "scrollToElement"
  /\ call.variant = "promise"
  /\ call.status = "ok"
  /\ call.value = True
  /\ Len(call.requests) = 1

\* C14: distanceFromTop(e) is the top of e's bounding rectangle plus the
\* scroll position of the page, on every host and at every position, also
\* where window.pageYOffset gives nothing and documentElement.scrollTop
\* gives the position.
C14_DistanceFromTop ==
  (call.op = "distanceFromTop") =>
    call.value = Num(rectTop(win) + win.scrollY)

\* distanceFromTop called on a scrolled page whose window.pageYOffset is
\* falsy while documentElement.scrollTop is not 0
C14_Witness ==
  /\ call.op = "distanceFromTop"
  /\ ~truthy(pageYOffset(win))
  /\ scrollTop(win).value # 0
  /\ call.value = Num(win.docTop)

\* C19: when the task of a timer runs, every call made before the timer was
\* set has made its host call: what follows an await runs as a microtask,
\* before the event loop takes its next task.
C19_WorkBeforeNextTask == loop.ran.after \subseteq loop.done

\* a timer set after a call of the promise-returning scrollToElement has
\* run its task
C19_Witness ==
  /\ loop.ran.id > 0
  /\ loop.ran.after \cap loop.awaited # {}
  /\ loop.ran.after \subseteq loop.done

(***************************************************************************)
(* The persistent key-value store.  storage.text maps a store name to the  *)
(* string persisted under it; storage.last keeps, for a name, the mapping  *)
(* handed to the last store() under that name since the slot was last      *)
(* erased.  A string is a sequence of JSON tokens.                         *)
(***************************************************************************)
StoreNames == {"n", "m"}
StoreKeys == {"a", "b"}
StoreValues == {"1", "2"}
\* the mappings handed to store()
Partials == UNION {[ks -> StoreValues] : ks \in SUBSET StoreKeys}
\* a persisted string that is no JSON text
Corrupt == <<"{", "a">>

\* the order in which the keys of a record are written
StoreKeyOrder == <<"a", "b">>

RECURSIVE stringifyEntries(_, _)
\* the entries of the keys listed, separated by commas
stringifyEntries(data, keys) ==
  IF keys = <<>> THEN <<>>
  ELSE <<Head(keys), ":", data[Head(keys)]>>
       \o (IF Tail(keys) = <<>> THEN <<>> ELSE <<",">>)
       \o stringifyEntries(data, Tail(keys))

\* JSON.stringify of a record
stringify(data) ==
  <<"{">>
  \o stringifyEntries(data, SelectSeq(StoreKeyOrder, LAMBDA k : k \in DOMAIN data))
  \o <<"}">>

RECURSIVE parseEntries(_, _)
\* the entries of a JSON object after its opening brace
parseEntries(tokens, data) ==
  IF Len(tokens) >= 4 /\ tokens[2] = ":" /\ tokens[4] \in {",", "}"}
     /\ tokens[1] \in StoreKeys /\ tokens[3] \in StoreValues
  THEN LET next == (tokens[1] :> tokens[3]) @@ data
       IN IF tokens[4] = "}"
          THEN [ok |-> Len(tokens) = 4, data |-> next]
          ELSE parseEntries(SubSeq(tokens, 5, Len(tokens)), next)
  ELSE [ok |-> FALSE, data |-> data]

\* JSON.parse of a persisted string
parse(text) ==
  IF text = <<"{", "}">> THEN [ok |-> TRUE, data |-> <<>>]
  ELSE IF Len(text) >= 1 /\ text[1] = "{"
       THEN parseEntries(Tail(text), <<>>)
       ELSE [ok |-> FALSE, data |-> <<>>]

\* f without the key k
Erase(f, k) == [x \in DOMAIN f \ {k} |-> f[x]]

\* new Store(name, {adopt}): with adopt the record is what is persisted
\* under name, and nothing is erased; without, what is persisted under name
\* is erased and the record starts empty
Store_constructor(st, name, adopt) ==
  IF adopt
  THEN LET r == IF name \in DOMAIN st.text THEN parse(st.text[name])
                ELSE [ok |-> TRUE, data |-> <<>>]
       IN IF r.ok
          THEN [storage |-> st, record |-> [name |-> name, data |-> r.data],
                status |-> "ok"]
          ELSE [storage |-> st, record |-> NoRecord, status |-> "CorruptData"]
  ELSE [storage |-> [st EXCEPT !.text = Erase(@, name), !.last = Erase(@, name)],
        record |-> [name |-> name, data |-> <<>>],
        status |-> "ok"]

\* a store() that changes the record in memory and persists nothing
Store_store_inMemory(st, rec, partial) ==
  [storage |-> [st EXCEPT !.last = (rec.name :> partial) @@ @],
   record |-> [rec EXCEPT !.data = partial @@ @]]

\* store(partial): partial is merged into the record, key by key, and the
\* whole record is serialized and persisted at once
Store_store(st, rec, partial) ==
  LET data == partial @@ rec.data
  IN [storage |-> [st EXCEPT !.text = (rec.name :> stringify(data)) @@ @,
                             !.last = (rec.name :> partial) @@ @],
      record |-> [rec EXCEPT !.data = data]]

NewStore(name, adopt) ==
  /\ Idle
  /\ LET r == Store_constructor(storage, name, adopt)
     IN /\ storage' = r.storage
        /\ record' = IF r.status = "ok" THEN r.record ELSE record
        /\ call' = [NoCall EXCEPT !.op = "Store", !.variant = "sync",
                                  !.status = r.status, !.adopt = adopt,
                                  !.sub = name]
  /\ UNCHANGED <<domVars, attrVars, visVars, pageVars, scrollVars, handleVars>>

StoreStore(partial) ==
  /\ Idle
  /\ record.name # ""
  /\ storage.writes < MaxCalls
  /\ LET r == Store_store(storage, record, partial)
     IN /\ storage' = [r.storage EXCEPT !.writes = @ + 1]
        /\ record' = r.record
        /\ call' = Return([NoCall EXCEPT !.op = "store", !.variant = "sync",
                                         !.sub = record.name])
  /\ UNCHANGED <<domVars, attrVars, visVars, pageVars, scrollVars, handleVars>>

(***************************************************************************)
(* The specification of the store: a host whose slots hold nothing, a JSON *)
(* text or something else, and a page that constructs stores and writes.   *)
(***************************************************************************)
InitStore ==
  /\ NoTree
  /\ attributes = <<>>
  /\ call = NoCall
  /\ NoPresentation
  /\ win = NoScroll
  /\ loop = NoLoop
  /\ handle = NoHandle
  /\ storage \in {[NoStorage EXCEPT !.text = t] :
                    t \in {<<>>, "n" :> Corrupt, "n" :> stringify("b" :> "2"),
                           "m" :> stringify("a" :> "2")}}
  /\ record = NoRecord
  /\ NoPage

NextStore ==
  \/ \E n \in StoreNames, a \in BOOLEAN : NewStore(n, a)
  \/ \E p \in Partials : StoreStore(p)
  \/ Consume

SpecStore == InitStore /\ [][NextStore]_vars

\* C18: after store({a: 1}) under a name, a store constructed over the same
\* name with adopt: true holds a record that contains what store() was
\* handed, a with the value 1.
C18_StoreRoundTrip ==
  (call.op = "Store" /\ call.adopt /\ call.sub \in DOMAIN storage.last) =>
    /\ call.status = "ok"
    /\ record.name = call.sub
    /\ \A k \in DOMAIN storage.last[call.sub] :
         k \in DOMAIN record.data /\ record.data[k] = storage.last[call.sub][k]

\* a store adopted after store({a: 1}) on a slot that held b before
C18_Witness ==
  /\ call.op = "Store"
  /\ call.adopt
  /\ call.sub \in DOMAIN storage.last
  /\ storage.last[call.sub] = ("a" :> "1")
  /\ record.data = ("a" :> "1") @@ ("b" :> "2")

(***************************************************************************)
(* Custom events.  bus is the document's list of event listeners; a        *)
(* listener is added for an event name and, when called, returns, throws   *)
(* or stops the propagation of the event.                                  *)
(***************************************************************************)
EventNames == {"e", "f"}
\* what a listener's callback does with the event it is called with
Callbacks == {"returns", "throws", "stopImmediatePropagation"}
\* the payloads a page emits; Undefined stands for an argument not given
Payloads == {Undefined, JsNull, Str("p")}

\* new CustomEvent(event_name, {detail: payload})
CustomEvent(event_name, init) == [type |-> event_name, detail |-> init.detail]

RECURSIVE invoke_any(_, _, _, _)
\* a dispatch that calls the listeners of every event name
invoke_any(listeners, i, event, calls) ==
  IF i > Len(listeners) THEN calls
  ELSE IF listeners[i].does = "stopImmediatePropagation" THEN Append(calls, i)
  ELSE invoke_any(listeners, i + 1, event, Append(calls, i))

RECURSIVE invoke(_, _, _, _)
\* the listeners of the event's target are called in the order they were
\* added, each with the event: a listener for another event type is passed
\* over, an exception a listener throws is reported and the next listener
\* is called, and after stopImmediatePropagation() no listener is called
invoke(listeners, i, event, calls) ==
  IF i > Len(listeners) THEN calls
  ELSE IF listeners[i].name # event.type THEN invoke(listeners, i + 1, event, calls)
  ELSE IF listeners[i].does = "stopImmediatePropagation" THEN Append(calls, i)
  ELSE invoke(listeners, i + 1, event, Append(calls, i))

\* document.dispatchEvent(event): returns when the listeners have run
dispatchEvent(listeners, event) == invoke(listeners, 1, event, <<>>)

\* emit(event_name, payload = null): void
emit(listeners, event_name, payload) ==
  LET detail == IF payload = Undefined THEN JsNull ELSE payload
      event == CustomEvent(event_name, [detail |-> detail])
  IN Return([NoCall EXCEPT !.delivered = dispatchEvent(listeners, event),
                           !.value = event])

\* document.addEventListener(event_name, callback)
AddEventListener(event_name, does) ==
  /\ Idle
  /\ Len(bus) < MaxListeners
  /\ bus' = Append(bus, [name |-> event_name, does |-> does])
  /\ UNCHANGED <<domVars, attrVars, visVars, scrollVars, handleVars, storeVars,
                 style, call>>

Emit(event_name, payload) ==
  /\ Idle
  /\ call' = [emit(bus, event_name, payload) EXCEPT !.op = "emit",
                                                    !.options = payload]
  /\ UNCHANGED <<domVars, attrVars, visVars, hostVars>>

(***************************************************************************)
(* The specification of emit: a page that adds listeners to the document   *)
(* and emits events.                                                       *)
(***************************************************************************)
InitEmit ==
  /\ NoTree
  /\ attributes = <<>>
  /\ call = NoCall
  /\ NoPresentation
  /\ NoHost

NextEmit ==
  \/ \E n \in EventNames, d \in Callbacks : AddEventListener(n, d)
  \/ \E n \in EventNames, p \in Payloads : Emit(n, p)
  \/ Consume

SpecEmit == InitEmit /\ [][NextEmit]_vars

\* the listeners added for the event emitted, in the order they were added
Listening(type) == SelectSeq([i \in 1..Len(bus) |-> i], LAMBDA i : bus[i].name = type)

\* the listeners that stop the propagation of the event emitted
Stopping(type) ==
  {i \in 1..Len(bus) : bus[i].name = type /\ bus[i].does = "stopImmediatePropagation"}

\* the event carries the payload, null for a payload not given
Carries(event, payload) ==
  event.detail = IF payload = Undefined THEN JsNull ELSE payload

StyleProperties == {"color", "width"}
\* the values a page assigns: "" unsets a property, "?" is no value of any
\* property
StyleValues == {"", "x", "y", "?"}

\* the style can parse v
Accepts(v) == v # "?"

\* the style mappings a page passes: object literals over the properties
StyleMappings == UNION {[ps -> StyleValues] : ps \in SUBSET StyleProperties}

\* an assignment that replaces the style by the mapping
Object_assign_replace(st, styles) ==
  [p \in DOMAIN st |-> IF p \in DOMAIN styles /\ Accepts(styles[p]) THEN styles[p] ELSE ""]

\* Object.assign(element.style, styles): element.style[p] = styles[p] for
\* every own property p of styles, each through the style's setter
Object_assign(st, styles) ==
  [p \in DOMAIN st |-> IF p \in DOMAIN styles /\ Accepts(styles[p]) THEN styles[p] ELSE st[p]]

\* applyStyles(element, styles): void
applyStyles(st, styles) ==
  [style |-> Object_assign(st, styles),
   call |-> Return([NoCall EXCEPT !.value = Undefined])]

\* applyStyles of the promise-returning revision: the executor runs inside
\* the call, the promise is resolved with true
applyStyles_promise(st, styles) ==
  [style |-> Object_assign(st, styles),
   call |-> Return([NoCall EXCEPT !.value = True])]

ApplyStylesVariants == {"sync", "promise"}

ApplyStyles(variant, styles) ==
  /\ Idle
  /\ LET r == IF variant = "promise" THEN applyStyles_promise(style, styles)
              ELSE applyStyles(style, styles)
     IN /\ style' = r.style
        /\ call' = [r.call EXCEPT !.op = "applyStyles", !.variant = variant,
                                  !.styles = styles, !.before = style]
  /\ UNCHANGED <<domVars, attrVars, visVars, scrollVars, handleVars, storeVars, bus>>

(***************************************************************************)
(* The specification of applyStyles: an element with any inline style and  *)
(* a page that applies any mapping to it, again and again.                 *)
(***************************************************************************)
InitStyle ==
  /\ NoTree
  /\ attributes = <<>>
  /\ call = NoCall
  /\ NoPresentation
  /\ win = NoScroll
  /\ loop = NoLoop
  /\ handle = NoHandle
  /\ storage = NoStorage
  /\ record = NoRecord
  /\ style \in [StyleProperties -> {v \in StyleValues : Accepts(v)}]
  /\ bus = NoBus

NextStyle ==
  \/ \E v \in ApplyStylesVariants, styles \in StyleMappings : ApplyStyles(v, styles)
  \/ Consume

SpecStyle == InitStyle /\ [][NextStyle]_vars

\* C21 as claimed: applyStyles(e, styles) sets every property named in
\* styles to the given value, leaves every other property unchanged and
\* returns no value.
C21_ApplyStylesSetsAll ==
  call.op = "applyStyles" =>
    /\ \A p \in DOMAIN call.styles : style[p] = call.styles[p]
    /\ \A p \in StyleProperties \ DOMAIN call.styles : style[p] = call.before[p]
    /\ call.value = Undefined

\* C21 as amended: applyStyles(e, styles) sets every property named in
\* styles with a value the style accepts to that value (overwriting what an
\* earlier call set), leaves every other property unchanged, and returns no
\* value in the synchronous revisions and a promise resolved with true in
\* the promise-returning one.
C21_ApplyStylesSetsAccepted ==
  call.op = "applyStyles" =>
    /\ \A p \in DOMAIN call.styles :
         style[p] = IF Accepts(call.styles[p]) THEN call.styles[p] ELSE call.before[p]
    /\ \A p \in StyleProperties \ DOMAIN call.styles : style[p] = call.before[p]
    /\ call.status = "ok"
    /\ call.value = IF call.variant = "promise" THEN True ELSE Undefined

\* a call that overwrites one property set before and leaves the other
C21_Witness ==
  /\ call.op = "applyStyles"
  /\ DOMAIN call.styles = {"color"}
  /\ call.before["color"] = "x"
  /\ style["color"] = "y"
  /\ style["width"] = "x"
  /\ call.before["width"] = "x"

(***************************************************************************)
(* Showing and hiding an element.  A revision of hide and show acts on the *)
(* element, the running interval timers and the queue of frame callbacks.  *)
(***************************************************************************)
\* opacity "1", in twentieths
OpacityOne == 20
\* the step 0.1 of both fading hides
HideStep == 2
\* the step 0.05 of the show that goes with the interval hide
ShowStep == 1
\* the step 0.1 of the show that goes with the frame-callback hide
ShowStepRaf == 2

Impls == {"flag", "interval", "raf", "display"}
\* the display argument of show; "" stands for an argument not given
ShowDisplays == {"", "flex"}

\* el.style.opacity = v
setOpacity(e, v) == [e EXCEPT !.opacitySet = TRUE, !.opacity = v]
\* the number el.style.opacity converts to in `-=': "" converts to 0
opacityNumber(e) == IF e.opacitySet THEN e.opacity ELSE 0

\* a callback that sets display to none and leaves its timer running
fadeEffect_notCleared(e) ==
  LET e1 == IF ~e.opacitySet THEN setOpacity(e, OpacityOne) ELSE e
  IN IF e1.opacity > 0
     THEN [el |-> setOpacity(e1, e1.opacity - HideStep), again |-> TRUE]
     ELSE [el |-> [e1 EXCEPT !.display = "none"], again |-> TRUE]

\* the callback hide hands to setInterval: one step down while the opacity
\* is above 0, else the timer is cleared and display set to none
fadeEffect(e) ==
  LET e1 == IF ~e.opacitySet THEN setOpacity(e, OpacityOne) ELSE e
  IN IF e1.opacity > 0
     THEN [el |-> setOpacity(e1, e1.opacity - HideStep), again |-> TRUE]
     ELSE [el |-> [e1 EXCEPT !.display = "none"], again |-> FALSE]

\* fade of the frame-callback hide: if ((el.style.opacity -= 0.1) < 0)
\* display is set to none, else the callback is requested again.  A number
\* below 0 is a valid opacity and is kept by the style (it renders as 0).
fade_hide(e) ==
  LET opacity == opacityNumber(e) - HideStep
  IN IF opacity < 0
     THEN [el |-> [setOpacity(e, opacity) EXCEPT !.display = "none"], again |-> FALSE]
     ELSE [el |-> setOpacity(e, opacity), again |-> TRUE]

\* fade of show: val = parseFloat(opacity); if (!((val += step) > 1)) the
\* opacity is raised and the callback requested again.  parseFloat("") is
\* NaN: the test passes, the assignment of NaN is dropped by the style
fade_show(e, step) ==
  IF ~e.opacitySet THEN [el |-> e, again |-> TRUE]
  ELSE LET val == e.opacity + step
       IN IF ~(val > OpacityOne)
          THEN [el |-> setOpacity(e, val), again |-> TRUE]
          ELSE [el |-> e, again |-> FALSE]

\* a frame callback of revision i run on e
callback(i, kind, e) ==
  IF kind = "hide" THEN fade_hide(e)
  ELSE fade_show(e, IF i = "raf" THEN ShowStepRaf ELSE ShowStep)

\* a hide that flips the flag instead of setting it
hide_toggle(v) == [v EXCEPT !.el.hidden = ~@]

\* hide(element): element.hidden = true
hide(v) == [v EXCEPT !.el.hidden = TRUE]

\* a show that leaves the flag as it is
show_nothing(v) == v

\* show(element): element.hidden = false
show(v) == [v EXCEPT !.el.hidden = FALSE]

\* window.hide of helpers.js: element.style.display = 'none'
hide_display(v) == [v EXCEPT !.el.display = "none"]

\* window.show of helpers.js: element.style.display = 'contents'
show_display(v) == [v EXCEPT !.el.display = "contents"]

\* hide of the promise-era revisions: a timer that fades every 10 ms
hide_interval(v) == [v EXCEPT !.intervals = @ + 1]

\* show of the promise-era revisions: opacity "0", display ?? "block", and
\* a fade in steps of 0.05 whose first step runs inside the call
show_interval(v, display) ==
  LET e0 == [setOpacity(v.el, 0) EXCEPT
               !.display = IF display = "" THEN "block" ELSE display]
      r == fade_show(e0, ShowStep)
  IN [v EXCEPT !.el = r.el,
               !.frames = IF r.again THEN Append(@, "show") ELSE @]

\* hide of the early revisions: opacity 1, a fade in steps of 0.1 whose
\* first step runs inside the call, then el.hidden = true
hide_raf(v) ==
  LET r == fade_hide(setOpacity(v.el, OpacityOne))
  IN [v EXCEPT !.el = [r.el EXCEPT !.hidden = TRUE],
               !.frames = IF r.again THEN Append(@, "hide") ELSE @]

\* show of the early revisions: opacity 0, display || "block", a fade in
\* steps of 0.1, then el.hidden = false
show_raf(v, display) ==
  LET e0 == [setOpacity(v.el, 0) EXCEPT
               !.display = IF display = "" THEN "block" ELSE display]
      r == fade_show(e0, ShowStepRaf)
  IN [v EXCEPT !.el = [r.el EXCEPT !.hidden = FALSE],
               !.frames = IF r.again THEN Append(@, "show") ELSE @]

\* hide as revision i defines it
hideOf(i, v) ==
  CASE i = "flag"     -> hide(v)
    [] i = "interval" -> hide_interval(v)
    [] i = "raf"      -> hide_raf(v)
    [] i = "display"  -> hide_display(v)

\* show as revision i defines it
showOf(i, v, display) ==
  CASE i = "flag"     -> show(v)
    [] i = "interval" -> show_interval(v, display)
    [] i = "raf"      -> show_raf(v, display)
    [] i = "display"  -> show_display(v)

\* one tick of one running interval timer
tick(v) ==
  LET r == fadeEffect(v.el)
  IN [v EXCEPT !.el = r.el, !.intervals = IF r.again THEN @ ELSE @ - 1]

RECURSIVE runFrame(_, _, _, _)
\* one animation frame: the callbacks queued before the frame run in order;
\* what they request goes to the next frame
runFrame(i, queue, e, next) ==
  IF queue = <<>> THEN [el |-> e, frames |-> next]
  ELSE LET r == callback(i, Head(queue), e)
       IN runFrame(i, Tail(queue), r.el,
                   IF r.again THEN Append(next, Head(queue)) ELSE next)

frame(i, v) ==
  LET r == runFrame(i, v.frames, v.el, <<>>)
  IN [v EXCEPT !.el = r.el, !.frames = r.frames]

\* the element with its timers and callbacks
View == [el |-> el, intervals |-> intervals, frames |-> frames]

Become(v) ==
  /\ el' = v.el
  /\ intervals' = v.intervals
  /\ frames' = v.frames

Hide ==
  /\ Len(hist) < MaxCalls
  /\ Become(hideOf(impl, View))
  /\ hist' = Append(hist, "hide")
  /\ UNCHANGED <<domVars, attrVars, hostVars, call, impl, start>>

Show(display) ==
  /\ Len(hist) < MaxCalls
  /\ impl \in {"flag", "display"} => display = ""
  /\ Become(showOf(impl, View, display))
  /\ hist' = Append(hist, "show")
  /\ UNCHANGED <<domVars, attrVars, hostVars, call, impl, start>>

IntervalTick ==
  /\ intervals > 0
  /\ Become(tick(View))
  /\ UNCHANGED <<domVars, attrVars, hostVars, call, impl, start, hist>>

AnimationFrame ==
  /\ frames # <<>>
  /\ Become(frame(impl, View))
  /\ UNCHANGED <<domVars, attrVars, hostVars, call, impl, start, hist>>

(***************************************************************************)
(* The specification of hide and show: one element, in any presentation    *)
(* state a page can give it, and one revision of the library.              *)
(***************************************************************************)
InitialPresentations ==
  {[hidden |-> h, display |-> d, opacitySet |-> o.set, opacity |-> o.value] :
     h \in BOOLEAN, d \in {"", "none"},
     o \in {[set |-> FALSE, value |-> 0], [set |-> TRUE, value |-> OpacityOne],
            [set |-> TRUE, value |-> 5]}}

InitVis ==
  /\ NoTree
  /\ attributes = <<>>
  /\ call = NoCall
  /\ impl \in Impls
  /\ el \in InitialPresentations
  /\ start = el
  /\ intervals = 0
  /\ frames = <<>>
  /\ hist = <<>>
  /\ NoHost

NextVis ==
  \/ Hide
  \/ \E d \in ShowDisplays : Show(d)
  \/ IntervalTick
  \/ AnimationFrame

SpecVis == InitVis /\ [][NextVis]_vars

\* the host fires a running timer again and again, and runs the frame
\* callbacks that were requested
SpecVisFair ==
  /\ SpecVis
  /\ WF_vars(IntervalTick)
  /\ WF_vars(AnimationFrame)

(***************************************************************************)
(* Properties of hide and show.                                            *)
(***************************************************************************)
\* no timer runs and no frame callback is queued
Quiet == intervals = 0 /\ frames = <<>>

RECURSIVE runToQuiet(_, _)
\* v after every timer and frame callback has run to its end
runToQuiet(i, v) ==
  IF v.intervals > 0 THEN runToQuiet(i, tick(v))
  ELSE IF v.frames # <<>> THEN runToQuiet(i, frame(i, v))
  ELSE v

\* element e after one hide of revision i and all that the hide started
AfterOneHide(i, e) ==
  runToQuiet(i, hideOf(i, [el |-> e, intervals |-> 0, frames |-> <<>>])).el

\* what is rendered of an element: an opacity outside 0..1 renders as the
\* nearest bound, an inline style without opacity as 1
Rendered(e) ==
  [hidden |-> e.hidden, display |-> e.display,
   opacity |-> IF ~e.opacitySet THEN OpacityOne
               ELSE IF e.opacity < 0 THEN 0
               ELSE IF e.opacity > OpacityOne THEN OpacityOne ELSE e.opacity]

\* C8 as claimed: hide(e) followed by show(e) leaves the hidden flag as it
\* was before hide, whatever it was.
C8_HideShowRestoresFlag ==
  (impl = "flag" /\ hist = <<"hide", "show">>) => el.hidden = start.hidden

\* C8 as amended: hide(e) followed by show(e) leaves the hidden flag false,
\* which is its value before hide only for an element that was not hidden.
C8_HideShowLeavesFlagFalse ==
  (impl \in {"flag", "raf"} /\ hist = <<"hide", "show">>) =>
    /\ el.hidden = FALSE
    /\ (el.hidden = start.hidden) = ~start.hidden

\* hide and show called on an element that was hidden before
C8_Witness ==
  /\ impl = "flag"
  /\ hist = <<"hide", "show">>
  /\ start.hidden
  /\ ~el.hidden

\* C9 as claimed: after hide(e); hide(e) and all the timers and frame
\* callbacks they started, the element is in the state one hide(e) leaves.
C9_HideIdempotent ==
  (hist = <<"hide", "hide">> /\ Quiet) => el = AfterOneHide(impl, start)

\* C9 as amended: after hide(e); hide(e) and all the timers and frame
\* callbacks they started, the hidden flag, the display and the rendered
\* opacity are those one hide(e) leaves, and so is the whole inline style
\* in every revision but the frame-callback one.
C9_HideIdempotentAsRendered ==
  (hist = <<"hide", "hide">> /\ Quiet) =>
    /\ Rendered(el) = Rendered(AfterOneHide(impl, start))
    /\ impl # "raf" => el = AfterOneHide(impl, start)

\* two hides of the frame-callback revision have faded the element out
C9_Witness ==
  /\ impl = "raf"
  /\ hist = <<"hide", "hide">>
  /\ Quiet
  /\ el.display = "none"
  /\ el.opacity < AfterOneHide(impl, start).opacity

\* the page has called hide, once or more, and never show
OnlyHides == hist # <<>> /\ \A i \in 1..Len(hist) : hist[i] = "hide"

\* the element is faded out: not displayed, and rendered with opacity 0
FadedOut == el.display = "none" /\ Rendered(el).opacity = 0

\* once the hides have run to their end the element changes only by a call
FadedOutStays ==
  (impl \in {"interval", "raf"} /\ OnlyHides /\ Quiet) => (el' = el \/ hist' # hist)

\* C23: in the fading revisions hide(e) terminates: after finitely many
\* timer ticks or frame callbacks no timer runs and no callback is queued,
\* and then the opacity is down at 0 (the element renders with opacity 0),
\* display is 'none', and the element changes no more unless the page makes
\* another call.
C23_FadingHideTerminates ==
  /\ [](impl \in {"interval", "raf"} /\ OnlyHides =>
          <>(~OnlyHides \/ (Quiet /\ FadedOut)))
  /\ [](impl \in {"interval", "raf"} /\ OnlyHides /\ Quiet => FadedOut)
  /\ [][FadedOutStays]_vars

\* the timer of one hide has faded the element out and has been cleared
C23_Witness ==
  /\ impl = "interval"
  /\ hist = <<"hide">>
  /\ ~start.opacitySet
  /\ start.display = ""
  /\ Quiet
  /\ el.display = "none"
  /\ el.opacity = 0

\* C27: in the fading revisions a show(e) called while the fade of an
\* earlier hide(e) is running ends with the element visible: the timers and
\* frame callbacks come to an end, and then display is not 'none'.  (A show
\* called after the hide has run to its end leaves nothing of the hide
\* behind, so both parts can fail only when the two overlap.)
C27_ShowDuringHideEndsVisible ==
  /\ [](impl \in {"interval", "raf"} /\ hist = <<"hide", "show">> /\ Quiet =>
          el.display # "none")
  /\ [](impl \in {"interval", "raf"} /\ hist = <<"hide", "show">> =>
          <>(Quiet \/ hist # <<"hide", "show">>))

====
